---- MODULE Spec2Model ----
(***************************************************************************)
(* bossypaints: the volume materialization of                              *)
(* NumpyInMemoryVolumePolygonRenderer._materialize_xyz_volume              *)
(* (server/bossypaints/renderer.py), as a state machine that walks the     *)
(* checkpoint / polygon / region loops one region at a time.               *)
(*                                                                         *)
(* Coordinates.  A ring is a sequence of <<x, y>> vertices in annotation   *)
(* space.  points / resolution_factor is a real-valued division: a scaled  *)
(* ring is kept as integer numerators over one common denominator          *)
(* (the resolution factor), so x / 2^r - x_min is the exact rational       *)
(* (x - 2^r * x_min) / 2^r.                                                *)
(*                                                                         *)
(* The grid is a function from index tuples <<i, j, k>> (or                *)
(* <<i, j, k, c>> in channel mode) to naturals, indices counted from 0 as  *)
(* in numpy.                                                               *)
(***************************************************************************)
EXTENDS Integers, Sequences, FiniteSets, TLC

\* ------------------------------------------------------------------ bounds

\* The largest number of polygons in one checkpoint list (over all of its
\* checkpoints).
MaxPolygons == 2

\* The largest number of checkpoints in one checkpoint list.
MaxCheckpoints == 2

\* The largest extent of a task box along one axis, in the sweep over task
\* shapes.
MaxSize == 2

\* ------------------------------------------------------------- arithmetic

Min(a, b) == IF a <= b THEN a ELSE b

Max(a, b) == IF a >= b THEN a ELSE b

\* floor(n / d) and ceil(n / d) of the rational n / d, d > 0.
Floor(n, d) == n \div d

Ceil(n, d) == -((-n) \div d)

Sign(n) == IF n > 0 THEN 1 ELSE IF n < 0 THEN -1 ELSE 0

\* ------------------------------------------------------------ numpy pieces

\* np.clip(v, lo, hi) on one element: minimum(maximum(v, lo), hi).
Clip(v, lo, hi) == Min(Max(v, lo), hi)

\* The index tuples of an array of the given shape (a sequence of 3 or 4
\* extents, none negative).
Indices(shape) ==
    IF Len(shape) = 3
    THEN (0 .. shape[1] - 1) \X (0 .. shape[2] - 1) \X (0 .. shape[3] - 1)
    ELSE (0 .. shape[1] - 1) \X (0 .. shape[2] - 1) \X (0 .. shape[3] - 1)
             \X (0 .. shape[4] - 1)

\* np.zeros(shape): defined when no extent is negative (otherwise numpy
\* raises ValueError).
ZerosRaises(shape) == \E a \in 1 .. Len(shape) : shape[a] < 0

Zeros(shape) == [idx \in Indices(shape) |-> 0]

\* numpy's handling of one integer index on an axis of extent n: an index
\* in -n .. n-1 is accepted and a negative one counts from the end; any
\* other index raises IndexError.
IndexInBounds(i, n) == -n <= i /\ i < n

WrapIndex(i, n) == IF i < 0 THEN i + n ELSE i

\* ------------------------------------------------------- scikit-image fill

\* An array of reals as the code's float arrays hold them: integer
\* numerators vals over one denominator den > 0.
ArrMin(a) == CHOOSE m \in {a.vals[i] : i \in DOMAIN a.vals} :
                 \A i \in DOMAIN a.vals : m <= a.vals[i]

ArrMax(a) == CHOOSE m \in {a.vals[i] : i \in DOMAIN a.vals} :
                 \A i \in DOMAIN a.vals : m >= a.vals[i]

\* skimage's point_in_polygon(xp, yp, x, y) (O'Rourke's crossing test): 0
\* for a point outside the ring, nonzero for a point inside it, on an edge
\* or on a vertex.  xp, yp are real arrays, (x, y) an integer point.  The
\* ray crossing (x0*y1 - x1*y0) / (y1 - y0) is only compared with 0, so its
\* sign is taken from the signs of numerator and denominator.
point_in_polygon(xp, yp, x, y) ==
    LET n == Len(xp.vals)
        X(i) == xp.vals[i] - x * xp.den
        Y(i) == yp.vals[i] - y * yp.den
        Prev(i) == IF i = 1 THEN n ELSE i - 1
        Cross(i) == Sign(X(i) * Y(Prev(i)) - X(Prev(i)) * Y(i))
                        * Sign(Y(Prev(i)) - Y(i))
        vertex == \E i \in 1 .. n : X(i) = 0 /\ Y(i) = 0
        r_cross == Cardinality({i \in 1 .. n :
                       /\ (Y(i) > 0) # (Y(Prev(i)) > 0)
                       /\ Cross(i) > 0})
        l_cross == Cardinality({i \in 1 .. n :
                       /\ (Y(i) < 0) # (Y(Prev(i)) < 0)
                       /\ Cross(i) < 0})
    IN  \/ vertex
        \/ (r_cross % 2) # (l_cross % 2)
        \/ r_cross % 2 = 1

\* skimage.draw.polygon(r, c) without a shape: the pixels <<row, col>> of
\* the rectangle max(0, floor(min)) .. ceil(max) on each axis that
\* point_in_polygon accepts.  No pixel with a negative coordinate is ever
\* produced; pixels beyond the image are.
polygon(r, c) ==
    LET minr == Max(0, Floor(ArrMin(r), r.den))
        maxr == Ceil(ArrMax(r), r.den)
        minc == Max(0, Floor(ArrMin(c), c.den))
        maxc == Ceil(ArrMax(c), c.den)
    IN  {p \in (minr .. maxr) \X (minc .. maxc) :
            point_in_polygon(c, r, p[2], p[1])}

\* ---------------------------------------------------- coordinate transform

\* resolution_factor = 2 ** task.resolution
ResolutionFactor(task) == 2 ^ task.resolution

\* points = np.array(region): the vertices as an n x 2 real array.
Points(region) == [pts |-> region, den |-> 1]

\* points.ndim: 2 for a non-empty list of pairs, 1 for the empty list.
Ndim(region) == IF Len(region) = 0 THEN 1 ELSE 2

\* RegionSkipped with an off-by-one vertex count.
RegionSkippedBelowTwo(region) == Ndim(region) # 2 \/ Len(region) < 2

\* The guard "points.ndim != 2 or len(points) < 3": the region is skipped.
RegionSkipped(region) == Ndim(region) # 2 \/ Len(region) < 3

\* points / resolution_factor: the real-valued quotient of every entry.
Scaled(points, factor) == [pts |-> points.pts, den |-> points.den * factor]

\* a[:, col] -= v on a copy: v subtracted from one column.
ColumnMinus(a, col, v) ==
    [pts |-> [i \in DOMAIN a.pts |->
                 [a.pts[i] EXCEPT ![col] = a.pts[i][col] - v * a.den]],
     den |-> a.den]

\* a[:, col]: one column as a real array.
Column(a, col) == [vals |-> [i \in DOMAIN a.pts |-> a.pts[i][col]], den |-> a.den]

\* PointsOffset with the offset taken before the scaling: (x - x_min) / 2^r.
PointsOffsetBeforeScaling(task, region) ==
    Scaled(ColumnMinus(ColumnMinus(Points(region), 1, task.x_min), 2, task.y_min),
           ResolutionFactor(task))

\* points_offset of a region: scaled by the resolution factor, then moved
\* by the task's x_min (column 0, the x's) and y_min (column 1, the y's).
\* Columns are counted from 1 here.
PointsOffset(task, region) ==
    ColumnMinus(
        ColumnMinus(Scaled(Points(region), ResolutionFactor(task)), 1, task.x_min),
        2, task.y_min)

\* rr, cc = polygon(points_offset[:, 1], points_offset[:, 0]): rows from
\* the y's, columns from the x's.
RegionFill(offset) == polygon(Column(offset, 2), Column(offset, 1))

\* ------------------------------------------------------------- task sizes

XSize(task) == task.x_max - task.x_min

YSize(task) == task.y_max - task.y_min

ZSize(task) == task.z_max - task.z_min

\* All polygons of a checkpoint list, in iteration order (checkpoint by
\* checkpoint).
RECURSIVE AllPolygons(_)
AllPolygons(cps) ==
    IF cps = << >> THEN << >>
    ELSE Head(cps).polygons \o AllPolygons(Tail(cps))

\* Sorted in descending order.
SortedDescending(S) ==
    CHOOSE s \in [1 .. Cardinality(S) -> S] :
        \A i, j \in 1 .. Cardinality(S) : i < j => s[i] > s[j]

\* sorted(S) for a finite set of integers, as a sequence.
Sorted(S) ==
    CHOOSE s \in [1 .. Cardinality(S) -> S] :
        \A i, j \in 1 .. Cardinality(S) : i < j => s[i] < s[j]

\* ids = sorted(set(poly.segmentID for checkpoint in checkpoints
\*                  for poly in checkpoint.polygons))
SegmentIds(cps) ==
    LET polys == AllPolygons(cps)
    IN  Sorted({polys[i].segmentID : i \in DOMAIN polys})

\* IndexOf with every label sent to the first channel.
IndexOfFirstChannel(idlist, v) == 0

\* ids.index(v): the position of v in ids, counted from 0.
IndexOf(idlist, v) ==
    (CHOOSE i \in DOMAIN idlist :
        idlist[i] = v /\ \A j \in DOMAIN idlist : idlist[j] = v => i <= j) - 1

\* VolumeShape with the first two axes in row-major (y, x) order.
VolumeShapeRowMajor(task, cps, channels) ==
    IF channels
    THEN <<YSize(task), XSize(task), ZSize(task), Len(SegmentIds(cps))>>
    ELSE <<YSize(task), XSize(task), ZSize(task)>>

\* The shape handed to np.zeros.
VolumeShape(task, cps, channels) ==
    IF channels
    THEN <<XSize(task), YSize(task), ZSize(task), Len(SegmentIds(cps))>>
    ELSE <<XSize(task), YSize(task), ZSize(task)>>

\* z = poly.z - task.z_min, and the guard "z < 0 or z >= z_size".
ZLocal(task, poly) == poly.z - task.z_min

\* PolygonSkipped without the lower bound.
PolygonSkippedAboveOnly(task, poly) == ZLocal(task, poly) >= ZSize(task)

PolygonSkipped(task, poly) ==
    ZLocal(task, poly) < 0 \/ ZLocal(task, poly) >= ZSize(task)

\* ClipPixels with the columns left unclipped.
ClipPixelsRowsOnly(task, pixels) ==
    {<<Clip(p[1], 0, YSize(task) - 1), p[2]>> : p \in pixels}

\* rr = np.clip(rr, 0, y_size - 1); cc = np.clip(cc, 0, x_size - 1), on the
\* pixels <<row, col>> of a fill.
ClipPixels(task, pixels) ==
    {<<Clip(p[1], 0, YSize(task) - 1), Clip(p[2], 0, XSize(task) - 1)>> :
        p \in pixels}

\* The index tuple volume[c, r, z] or volume[c, r, z, k].
VoxelIndex(c, r, z, k, channels) ==
    IF channels THEN <<c, r, z, k>> ELSE <<c, r, z>>

\* volume[cc, rr, z] = v and volume[cc, rr, z, k] = v on index arrays
\* rr, cc given as pixels <<row, col>>: IndexError when an index is out of
\* bounds for its axis, otherwise every addressed voxel takes v.
SetItemRaises(shp, pixels, z, k, channels) ==
    \E p \in pixels :
        \/ ~IndexInBounds(p[2], shp[1])
        \/ ~IndexInBounds(p[1], shp[2])
        \/ ~IndexInBounds(z, shp[3])
        \/ channels /\ ~IndexInBounds(k, shp[4])

Addressed(shp, pixels, z, k, channels) ==
    {VoxelIndex(WrapIndex(p[2], shp[1]), WrapIndex(p[1], shp[2]),
                WrapIndex(z, shp[3]),
                IF channels THEN WrapIndex(k, shp[4]) ELSE 0, channels) :
        p \in pixels}

\* SetItem with a first-writer-wins slip: only voxels still 0 are written.
SetItemIfUnset(vol, shp, pixels, z, k, channels, v) ==
    LET hit == Addressed(shp, pixels, z, k, channels)
    IN  [idx \in DOMAIN vol |->
            IF idx \in hit /\ vol[idx] = 0 THEN v ELSE vol[idx]]

SetItem(vol, shp, pixels, z, k, channels, v) ==
    LET hit == Addressed(shp, pixels, z, k, channels)
    IN  [idx \in DOMAIN vol |-> IF idx \in hit THEN v ELSE vol[idx]]

\* The clipped fill of one region under a task: what one pass of a region
\* loop body computes as rr, cc before its write.
Footprint(task, region) ==
    ClipPixels(task, RegionFill(PointsOffset(task, region)))

\* ------------------------------------------------------------------ inputs

\* Rings, in annotation space.
RingLeft == << <<0, 0>>, <<1, 0>>, <<1, 1>>, <<0, 1>> >>

RingRight == << <<1, 0>>, <<2, 0>>, <<2, 1>>, <<1, 1>> >>

RingWide == << <<1, -1>>, <<5, -1>>, <<5, 3>>, <<1, 3>> >>

RingLow == << <<3, -1>>, <<7, -1>>, <<7, 1>>, <<3, 1>> >>

RingTriangle == << <<0, 0>>, <<2, 0>>, <<0, 1>> >>

RingShort == << <<2, 0>>, <<6, 2>> >>

RingOutside == << <<9, 9>>, <<11, 9>>, <<11, 11>>, <<9, 11>> >>

Poly(id, z, pos, neg) ==
    [segmentID |-> id, z |-> z, positiveRegions |-> pos, negativeRegions |-> neg]

\* The polygons checkpoints are built from.
PolygonCatalog ==
    { Poly(3, 1, <<RingLeft>>, << >>),
      Poly(7, 1, <<RingRight>>, << >>),
      Poly(3, 1, <<RingWide>>, <<RingLow>>),
      Poly(7, 1, <<RingShort, RingTriangle>>, <<RingShort>>),
      Poly(3, 2, <<RingWide, RingLow>>, <<RingRight, RingOutside>>),
      Poly(7, 0, <<RingOutside>>, << >>),
      Poly(3, 1, <<RingShort>>, << >>),
      Poly(7, 1, << >>, <<RingWide>>) }

\* The sequences of exactly n catalog polygons.
PolygonSeqs(n) == [1 .. n -> PolygonCatalog]

\* The checkpoint lists of exactly k checkpoints holding at most n polygons
\* in all.
RECURSIVE CheckpointListsOf(_, _)
CheckpointListsOf(k, n) ==
    IF k = 0 THEN { << >> }
    ELSE UNION { { <<[polygons |-> first]>> \o rest :
                     first \in PolygonSeqs(m), rest \in CheckpointListsOf(k - 1, n - m) } :
                 m \in 0 .. n }

CheckpointLists ==
    UNION { CheckpointListsOf(k, MaxPolygons) : k \in 0 .. MaxCheckpoints }

Task(x0, x1, y0, y1, z0, z1, r) ==
    [x_min |-> x0, x_max |-> x1, y_min |-> y0, y_max |-> y1,
     z_min |-> z0, z_max |-> z1, resolution |-> r]

\* Two well-formed tasks every checkpoint list is rendered under: one at
\* full resolution at the origin, one at resolution level 1 away from it.
RenderTasks ==
    { Task(0, 3, 0, 2, 0, 2, 0), Task(1, 4, 0, 2, 1, 3, 1) }

\* The sweep over task shapes, inverted and empty boxes included.
SweepTasks ==
    { Task(x0, x0 + xs, 0, ys, z0, z0 + zs, r) :
        x0 \in {0, 1}, xs \in -1 .. MaxSize, ys \in -1 .. MaxSize,
        z0 \in {0, 1}, zs \in -1 .. MaxSize, r \in {0, 1} }

\* The checkpoint lists rendered under every task of the sweep.
SweepCheckpointLists ==
    { << >>,
      <<[polygons |-> <<Poly(3, 1, <<RingLeft>>, << >>)>>]>>,
      <<[polygons |-> <<Poly(7, 1, << >>, <<RingWide>>)>>]>>,
      <<[polygons |-> <<Poly(7, 1, <<RingShort, RingTriangle>>, <<RingShort>>)>>],
        [polygons |-> <<Poly(3, 2, <<RingWide, RingLow>>, <<RingRight, RingOutside>>)>>]>> }

Inputs ==
    (RenderTasks \X CheckpointLists \X BOOLEAN)
        \cup (SweepTasks \X SweepCheckpointLists \X BOOLEAN)

\* ------------------------------------------------------------------- state

VARIABLES
    task,           \* the task argument
    checkpoints,    \* the checkpoints argument
    as_channels,    \* the as_channels argument
    pc,             \* where the call is
    shape,          \* volume.shape
    ids,            \* the sorted segment IDs
    volume,         \* the grid
    ci,             \* position of the checkpoint loop (from 1)
    pi,             \* position of the polygon loop (from 1)
    ri,             \* position of the region loop (from 1)
    points_offset,  \* the transformed vertices of the region at hand
    pixels,         \* rr, cc after clipping, as pixels <<row, col>>
    writer          \* history: the polygon <<ci, pi>> whose label a voxel holds

VARIABLES
    call,           \* which call on the renderer object this is (from 1)
    first_outcome,  \* history: what the first call gave back
    given           \* history: the arguments as the caller passed them

renderVars == <<task, checkpoints, as_channels, pc, shape, ids, volume, ci, pi,
                ri, points_offset, pixels, writer>>

callVars == <<call, first_outcome, given>>

VARIABLES
    ident,          \* the task's collection, experiment, channel and id
    directory,      \* ImageStackVolumePolygonRenderer.directory
    fmt,            \* ImageStackVolumePolygonRenderer.fmt
    files,          \* the file system: file name |-> image written
    remote,         \* the BossDB dataset: <<z, y, x>> |-> value
    epc,            \* where render_from_checkpoints is
    zi,             \* the z of the slice loop
    written,        \* history: the names imsave was called with in this render
    kept,           \* history: the names of the non-empty slices of all renders
    remote_before,  \* history: the dataset before the latest remote write
    renders         \* history: the renders begun

exportVars == <<ident, directory, fmt, files, remote, epc, zi, written, kept,
                remote_before, renders>>

VARIABLES
    store_file,     \* checkpoints.json: whether it exists and what it holds
    jobs,           \* the background tasks added by save_task, in order
    last_saved,     \* history: per task, how many saves and the latest one
    requests        \* history: the requests handled

serverVars == <<store_file, jobs, last_saved, requests>>

\* What belongs to the callers of _materialize_xyz_volume, not to the call.
outer == <<callVars, exportVars, serverVars>>

\* No renderer is exporting anything.
NoExport ==
    /\ ident = << >>
    /\ directory = << >>
    /\ fmt = << >>
    /\ files = << >>
    /\ remote = << >>
    /\ epc = "none"
    /\ zi = 0
    /\ written = {}
    /\ kept = {}
    /\ remote_before = << >>
    /\ renders = 0

\* No server is handling requests.
NoServer ==
    /\ store_file = << >>
    /\ jobs = << >>
    /\ last_saved = << >>
    /\ requests = 0

vars == <<renderVars, outer>>

args == <<task, checkpoints, as_channels>>

NoOutcome == [error |-> "pending", volume |-> << >>]

NoWriter == <<0, 0>>

\* The history variable after the voxels hit are marked as written by who.
Mark(w, hit, who) == [idx \in DOMAIN w |-> IF idx \in hit THEN who ELSE w[idx]]

\* The state in which a caller enters the function with one of the inputs.
Start(inputs) ==
    /\ \E input \in inputs :
        /\ task = input[1]
        /\ checkpoints = input[2]
        /\ as_channels = input[3]
    /\ call = 1
    /\ first_outcome = NoOutcome
    /\ given = args
    /\ NoExport
    /\ NoServer
    /\ pc = "start"
    /\ shape = << >>
    /\ ids = << >>
    /\ volume = << >>
    /\ ci = 0
    /\ pi = 0
    /\ ri = 0
    /\ points_offset = [pts |-> << >>, den |-> 1]
    /\ pixels = {}
    /\ writer = << >>

Init == Start(Inputs)

\* -------------------------------------------------------------- loop moves

\* The first checkpoint at or after position c that holds a polygon, or
\* Len(cps) + 1 when there is none.
RECURSIVE FirstFrom(_, _)
FirstFrom(cps, c) ==
    IF c > Len(cps) THEN Len(cps) + 1
    ELSE IF Len(cps[c].polygons) > 0 THEN c
    ELSE FirstFrom(cps, c + 1)

\* The polygon the nested for loops visit after <<c, p>>.
Advance(cps, c, p) ==
    IF c >= 1 /\ c <= Len(cps) /\ p < Len(cps[c].polygons)
    THEN <<c, p + 1>>
    ELSE <<FirstFrom(cps, c + 1), 1>>

\* Where the body of one polygon goes after region r of a phase (r = 0:
\* before the first positive region): the next positive region, else the
\* first or next negative region, else on to the next polygon.
\* AfterRegion with the legacy single-outline slip: only the first positive
\* region of a polygon is rendered.
AfterRegionFirstPositiveOnly(poly, phase, r) ==
    IF phase = "positive" /\ r < Len(poly.positiveRegions) /\ r < 1
    THEN <<"positive", r + 1>>
    ELSE IF phase = "positive" /\ Len(poly.negativeRegions) > 0
    THEN <<"negative", 1>>
    ELSE IF phase = "negative" /\ r < Len(poly.negativeRegions)
    THEN <<"negative", r + 1>>
    ELSE <<"polygon", 0>>

AfterRegion(poly, phase, r) ==
    IF phase = "positive" /\ r < Len(poly.positiveRegions)
    THEN <<"positive", r + 1>>
    ELSE IF phase = "positive" /\ Len(poly.negativeRegions) > 0
    THEN <<"negative", 1>>
    ELSE IF phase = "negative" /\ r < Len(poly.negativeRegions)
    THEN <<"negative", r + 1>>
    ELSE <<"polygon", 0>>

CurrentPolygon == checkpoints[ci].polygons[pi]

Goto(next) ==
    /\ pc' = next[1]
    /\ ri' = next[2]
    /\ IF next[1] = "polygon"
       THEN /\ ci' = Advance(checkpoints, ci, pi)[1]
            /\ pi' = Advance(checkpoints, ci, pi)[2]
       ELSE UNCHANGED <<ci, pi>>

\* ----------------------------------------------------------------- actions

\* Lines 34-48 when np.zeros accepts the shape.
Allocate ==
    /\ pc = "start"
    /\ ~ZerosRaises(VolumeShape(task, checkpoints, as_channels))
    /\ ids' = SegmentIds(checkpoints)
    /\ shape' = VolumeShape(task, checkpoints, as_channels)
    /\ volume' = Zeros(shape')
    /\ writer' = [idx \in Indices(shape') |-> NoWriter]
    /\ pc' = "polygon"
    /\ ci' = FirstFrom(checkpoints, 1)
    /\ pi' = 1
    /\ UNCHANGED <<args, outer, ri, points_offset, pixels>>

\* Lines 34-42 when an extent is negative: np.zeros raises ValueError.
AllocateRaises ==
    /\ pc = "start"
    /\ ZerosRaises(VolumeShape(task, checkpoints, as_channels))
    /\ ids' = SegmentIds(checkpoints)
    /\ pc' = "ValueError"
    /\ UNCHANGED <<args, outer, shape, volume, ci, pi, ri, points_offset, pixels, writer>>

\* Lines 52-55: a polygon off the task's z range is passed over.
SkipPolygon ==
    /\ pc = "polygon"
    /\ ci <= Len(checkpoints)
    /\ PolygonSkipped(task, CurrentPolygon)
    /\ Goto(<<"polygon", 0>>)
    /\ UNCHANGED <<args, outer, shape, ids, volume, points_offset, pixels, writer>>

\* Lines 52-61: a polygon on the z range enters its region loops.
BeginPolygon ==
    /\ pc = "polygon"
    /\ ci <= Len(checkpoints)
    /\ ~PolygonSkipped(task, CurrentPolygon)
    /\ Goto(AfterRegion(CurrentPolygon, "positive", 0))
    /\ UNCHANGED <<args, outer, shape, ids, volume, points_offset, pixels, writer>>

\* Lines 62-64: a positive region that is no ring is passed over.
SkipPositiveRegion ==
    /\ pc = "positive"
    /\ RegionSkipped(CurrentPolygon.positiveRegions[ri])
    /\ Goto(AfterRegion(CurrentPolygon, "positive", ri))
    /\ UNCHANGED <<args, outer, shape, ids, volume, points_offset, pixels, writer>>

\* RasterizePositive with the offset subtracted inside the ring the
\* checkpoint holds instead of inside a copy of it.
RasterizePositiveInPlace ==
    /\ pc = "positive"
    /\ ~RegionSkipped(CurrentPolygon.positiveRegions[ri])
    /\ points_offset' = PointsOffset(task, CurrentPolygon.positiveRegions[ri])
    /\ pixels' = ClipPixels(task, RegionFill(points_offset'))
    /\ checkpoints' =
           [checkpoints EXCEPT ![ci].polygons[pi].positiveRegions[ri] =
               [i \in DOMAIN @ |-> <<@[i][1] - task.x_min, @[i][2] - task.y_min>>]]
    /\ pc' = "write_positive"
    /\ UNCHANGED <<task, as_channels, outer, shape, ids, volume, ci, pi, ri, writer>>

\* Lines 66-77: transform, fill and clip one positive region.
RasterizePositive ==
    /\ pc = "positive"
    /\ ~RegionSkipped(CurrentPolygon.positiveRegions[ri])
    /\ points_offset' = PointsOffset(task, CurrentPolygon.positiveRegions[ri])
    /\ pixels' = ClipPixels(task, RegionFill(points_offset'))
    /\ pc' = "write_positive"
    /\ UNCHANGED <<args, outer, shape, ids, volume, ci, pi, ri, writer>>

\* Lines 80-83: the fill takes the polygon's segmentID.
WritePositive ==
    /\ pc = "write_positive"
    /\ LET k == IF as_channels THEN IndexOf(ids, CurrentPolygon.segmentID) ELSE 0
       IN  /\ ~SetItemRaises(shape, pixels, ZLocal(task, CurrentPolygon), k, as_channels)
           /\ volume' = SetItem(volume, shape, pixels, ZLocal(task, CurrentPolygon),
                                k, as_channels, CurrentPolygon.segmentID)
           /\ writer' = Mark(writer, Addressed(shape, pixels, ZLocal(task, CurrentPolygon),
                                                 k, as_channels), <<ci, pi>>)
    /\ Goto(AfterRegion(CurrentPolygon, "positive", ri))
    /\ UNCHANGED <<args, outer, shape, ids, points_offset, pixels>>

\* Lines 80-83 when an index is out of bounds: IndexError.
WritePositiveRaises ==
    /\ pc = "write_positive"
    /\ LET k == IF as_channels THEN IndexOf(ids, CurrentPolygon.segmentID) ELSE 0
       IN  SetItemRaises(shape, pixels, ZLocal(task, CurrentPolygon), k, as_channels)
    /\ pc' = "IndexError"
    /\ UNCHANGED <<args, outer, shape, ids, volume, ci, pi, ri, points_offset, pixels, writer>>

\* Lines 87-89: a negative region that is no ring is passed over.
SkipNegativeRegion ==
    /\ pc = "negative"
    /\ RegionSkipped(CurrentPolygon.negativeRegions[ri])
    /\ Goto(AfterRegion(CurrentPolygon, "negative", ri))
    /\ UNCHANGED <<args, outer, shape, ids, volume, points_offset, pixels, writer>>

\* Lines 91-99: transform, fill and clip one negative region.
RasterizeNegative ==
    /\ pc = "negative"
    /\ ~RegionSkipped(CurrentPolygon.negativeRegions[ri])
    /\ points_offset' = PointsOffset(task, CurrentPolygon.negativeRegions[ri])
    /\ pixels' = ClipPixels(task, RegionFill(points_offset'))
    /\ pc' = "write_negative"
    /\ UNCHANGED <<args, outer, shape, ids, volume, ci, pi, ri, writer>>

\* Lines 102-105: the fill is set to 0.
WriteNegative ==
    /\ pc = "write_negative"
    /\ LET k == IF as_channels THEN IndexOf(ids, CurrentPolygon.segmentID) ELSE 0
       IN  /\ ~SetItemRaises(shape, pixels, ZLocal(task, CurrentPolygon), k, as_channels)
           /\ volume' = SetItem(volume, shape, pixels, ZLocal(task, CurrentPolygon),
                                k, as_channels, 0)
           /\ writer' = Mark(writer, Addressed(shape, pixels, ZLocal(task, CurrentPolygon),
                                                 k, as_channels), NoWriter)
    /\ Goto(AfterRegion(CurrentPolygon, "negative", ri))
    /\ UNCHANGED <<args, outer, shape, ids, points_offset, pixels>>

\* Lines 102-105 when an index is out of bounds: IndexError.
WriteNegativeRaises ==
    /\ pc = "write_negative"
    /\ LET k == IF as_channels THEN IndexOf(ids, CurrentPolygon.segmentID) ELSE 0
       IN  SetItemRaises(shape, pixels, ZLocal(task, CurrentPolygon), k, as_channels)
    /\ pc' = "IndexError"
    /\ UNCHANGED <<args, outer, shape, ids, volume, ci, pi, ri, points_offset, pixels, writer>>

\* Line 107: both loops are exhausted and the grid is returned.
Return ==
    /\ pc = "polygon"
    /\ ci > Len(checkpoints)
    /\ pc' = "returned"
    /\ UNCHANGED <<args, outer, shape, ids, volume, ci, pi, ri, points_offset, pixels, writer>>

Next ==
    \/ Allocate
    \/ AllocateRaises
    \/ SkipPolygon
    \/ BeginPolygon
    \/ SkipPositiveRegion
    \/ RasterizePositive
    \/ WritePositive
    \/ WritePositiveRaises
    \/ SkipNegativeRegion
    \/ RasterizeNegative
    \/ WriteNegative
    \/ WriteNegativeRaises
    \/ Return

Spec == Init /\ [][Next]_vars

\* ------------------------------------------------ the call as one function

\* One pass of a region loop body (lines 62-83 with v the segmentID, lines
\* 87-105 with v = 0) on the result so far: a record of the error raised
\* ("none" when there is none) and the grid.
ApplyRegion(res, tsk, shp, idlist, channels, poly, region, v) ==
    LET k == IF channels THEN IndexOf(idlist, poly.segmentID) ELSE 0
        px == Footprint(tsk, region)
    IN  IF res.error # "none" \/ RegionSkipped(region) THEN res
        ELSE IF SetItemRaises(shp, px, ZLocal(tsk, poly), k, channels)
        THEN [error |-> "IndexError", volume |-> res.volume]
        ELSE [error |-> "none",
              volume |-> SetItem(res.volume, shp, px, ZLocal(tsk, poly), k, channels, v)]

\* One region loop: the regions in order.
RECURSIVE ApplyRegions(_, _, _, _, _, _, _, _)
ApplyRegions(res, tsk, shp, idlist, channels, poly, regions, v) ==
    IF regions = << >> THEN res
    ELSE ApplyRegions(
             ApplyRegion(res, tsk, shp, idlist, channels, poly, Head(regions), v),
             tsk, shp, idlist, channels, poly, Tail(regions), v)

\* The body of the polygon loop (lines 52-105).
ApplyPolygon(res, tsk, shp, idlist, channels, poly) ==
    IF PolygonSkipped(tsk, poly) THEN res
    ELSE ApplyRegions(
             ApplyRegions(res, tsk, shp, idlist, channels, poly,
                          poly.positiveRegions, poly.segmentID),
             tsk, shp, idlist, channels, poly, poly.negativeRegions, 0)

\* The two nested loops over polygons in iteration order (lines 50-105).
RECURSIVE ApplyPolygons(_, _, _, _, _, _)
ApplyPolygons(res, tsk, shp, idlist, channels, polys) ==
    IF polys = << >> THEN res
    ELSE ApplyPolygons(ApplyPolygon(res, tsk, shp, idlist, channels, Head(polys)),
                       tsk, shp, idlist, channels, Tail(polys))

\* _materialize_xyz_volume(task, checkpoints, as_channels) as a function of
\* its arguments: the error raised, if any, and the grid built.
Materialize(tsk, cps, channels) ==
    LET shp == VolumeShape(tsk, cps, channels)
    IN  IF ZerosRaises(shp) THEN [error |-> "ValueError", volume |-> << >>]
        ELSE ApplyPolygons([error |-> "none", volume |-> Zeros(shp)],
                           tsk, shp, SegmentIds(cps), channels, AllPolygons(cps))

\* The outcome of the call in a final state.
Finished == pc \in {"returned", "ValueError", "IndexError"}

Outcome ==
    [error |-> IF pc = "returned" THEN "none" ELSE pc, volume |-> volume]

\* The walk through the loops and the function agree on every input.
WalkAgreesWithFunction ==
    Finished => Outcome = Materialize(task, checkpoints, as_channels)

\* ------------------------------------------------------- two calls in a row

\* The arguments of the calls that are repeated.
InputsTwice == (RenderTasks \cup SweepTasks) \X SweepCheckpointLists \X BOOLEAN

InitTwice == Start(InputsTwice)

\* The caller, holding what the first call returned or raised, calls the
\* same renderer object again with the same three arguments.  The renderer
\* has no attribute the function reads or writes, and the names of the first
\* call's frame are rebound before they are read.
CallAgain ==
    /\ Finished
    /\ call = 1
    /\ first_outcome' = Outcome
    /\ call' = 2
    /\ pc' = "start"
    /\ UNCHANGED <<args, given, exportVars, serverVars, shape, ids, volume, ci, pi, ri, points_offset,
                   pixels, writer>>

NextTwice ==
    \/ Next
    \/ CallAgain

SpecTwice == InitTwice /\ [][NextTwice]_vars

\* --------------------------------------------------------------- exporters

MaxRenders == 2
RemoteExtent == 5
Uint16Modulus == 65536

\* ndarray.astype(np.uint16) with saturation in place of wrap-around.
AsUint16Saturating(v) == Min(v, Uint16Modulus - 1)

\* ndarray.astype(np.uint16) on one unsigned value: the low 16 bits.
AsUint16(v) == v % Uint16Modulus

\* volume[:, :, z], an array over <<x, y>>.
Slice(vol, shp, z) ==
    [p \in (0 .. shp[1] - 1) \X (0 .. shp[2] - 1) |-> vol[<<p[1], p[2], z>>]]

RECURSIVE SumOver(_, _)
SumOver(arr, idxs) ==
    IF idxs = {} THEN 0
    ELSE LET i == CHOOSE j \in idxs : TRUE
         IN  arr[i] + SumOver(arr, idxs \ {i})

\* np.sum(arr).  The sums of the grids built here stay far below 2^64, where
\* numpy's uint64 sum would wrap.
ArraySum(arr) == SumOver(arr, DOMAIN arr)

\* The skip test with only the voxel at the slice's origin looked at.
SliceIsEmptyAtOrigin(vol, shp, z) == vol[<<0, 0, z>>] = 0

\* np.sum(volume[:, :, z]) == 0
SliceIsEmpty(vol, shp, z) == ArraySum(Slice(vol, shp, z)) = 0

DigitChars == <<"0", "1", "2", "3", "4", "5", "6", "7", "8", "9">>

\* str(n) as the f-string formats a non-negative integer: its decimal digits.
RECURSIVE Digits(_)
Digits(n) ==
    IF n < 10 THEN <<DigitChars[n + 1]>>
    ELSE Digits(n \div 10) \o <<DigitChars[(n % 10) + 1]>>

\* The f-string of lines 126-127; text is a sequence of characters, the
\* separators "_" and "." are characters like any other.
FileName(dir, tsk, id, z, f) ==
    dir \o id.collection \o <<"_">> \o id.experiment \o <<"_">> \o id.channel
        \o <<"_">> \o Digits(tsk.resolution) \o <<"_">> \o id.id
        \o <<".">> \o Digits(z) \o <<".">> \o f

\* The directory render_and_mesh exports to: f"./exports/{task_id}/".
ExportDirectory(task_id) ==
    <<".", "/", "e", "x", "p", "o", "r", "t", "s", "/">> \o task_id \o <<"/">>

\* Path.mkdir with the files already in the directory removed.
MkdirEmptied(fs, dir) == [n \in {} |-> << >>]

\* pathlib.Path(dir).mkdir(parents=True, exist_ok=True): the directory is
\* there afterwards, and a directory already there keeps its files.
Mkdir(fs, dir) == fs

\* imsave(name, img): the file of that name holds img afterwards, whether
\* it was there before or not; no other file changes.
ImSave(fs, name, img) ==
    [n \in DOMAIN fs \cup {name} |-> IF n = name THEN img ELSE fs[n]]

\* The slices of a grid with a voxel that is not 0.
NonEmptySlices(vol, shp) ==
    {z \in 0 .. shp[3] - 1 :
        \E p \in (0 .. shp[1] - 1) \X (0 .. shp[2] - 1) : vol[<<p[1], p[2], z>>] # 0}

\* The grid handed on as it is, axes in (x, y, z) order.
TransposeNone(vol, shp) == [shape |-> shp, vals |-> vol]

\* ndarray.transpose(2, 1, 0): axis a of the result is axis 2 - a of vol.
Transpose(vol, shp) ==
    [shape |-> <<shp[3], shp[2], shp[1]>>,
     vals |-> [idx \in Indices(<<shp[3], shp[2], shp[1]>>) |->
                  vol[<<idx[3], idx[2], idx[1]>>]]]

\* The dataset's extent in the model, axes (z, y, x).
RemoteBox == (0 .. RemoteExtent - 1) \X (0 .. RemoteExtent - 1) \X (0 .. RemoteExtent - 1)

\* What the dataset holds before anything is written to it.
Untouched == 9

\* The cells dataset[z_min:z_max, y_min:y_max, x_min:x_max] selects.
RemoteRegion(tsk) ==
    {c \in RemoteBox : /\ tsk.z_min <= c[1] /\ c[1] < tsk.z_max
                       /\ tsk.y_min <= c[2] /\ c[2] < tsk.y_max
                       /\ tsk.x_min <= c[3] /\ c[3] < tsk.x_max}

RemoteRegionShape(tsk) ==
    << Max(0, Min(tsk.z_max, RemoteExtent) - tsk.z_min),
       Max(0, Min(tsk.y_max, RemoteExtent) - tsk.y_min),
       Max(0, Min(tsk.x_max, RemoteExtent) - tsk.x_min) >>

\* dataset[region] = arr: refused when arr has not the region's shape (no
\* extent here is 1, so nothing is broadcast), else cell by cell.
SetRegionRaises(tsk, arr) == arr.shape # RemoteRegionShape(tsk)

SetRegion(ds, tsk, arr) ==
    [c \in DOMAIN ds |->
        IF c \in RemoteRegion(tsk)
        THEN arr.vals[<<c[1] - tsk.z_min, c[2] - tsk.y_min, c[3] - tsk.x_min>>]
        ELSE ds[c]]

Text(s) == <<s>>

Idents ==
    { [collection |-> Text("c"), experiment |-> Text("e"), channel |-> Text("s"),
       id |-> <<"4", "2">>],
      [collection |-> <<"c", "_", "e">>, experiment |-> Text("x"),
       channel |-> <<"e", "m">>, id |-> Text("7")] }

ExportTasks == RenderTasks \cup {Task(0, 2, 0, 2, 0, 2, 0)}

\* Checkpoint lists with labels below, at and above 2^16.
ExportCheckpointLists ==
    { <<[polygons |-> <<Poly(3, 1, <<RingLeft>>, << >>)>>]>>,
      <<[polygons |-> <<Poly(Uint16Modulus, 1, <<RingWide>>, << >>)>>]>>,
      <<[polygons |-> <<Poly(Uint16Modulus + 3, 2, <<RingWide>>, <<RingLow>>),
                        Poly(3, 1, <<RingRight>>, << >>)>>]>>,
      <<[polygons |-> << >>]>>,
      <<[polygons |-> <<Poly(7, 1, <<RingLeft>>, << >>)>>],
        [polygons |-> <<Poly(2 * Uint16Modulus, 2, <<RingTriangle>>, << >>)>>]>> }

InitExport ==
    /\ task \in ExportTasks
    /\ checkpoints \in ExportCheckpointLists
    /\ as_channels = FALSE
    /\ ident \in Idents
    /\ directory = ExportDirectory(ident.id)
    /\ fmt = <<"t", "i", "f">>
    /\ files = [n \in {} |-> << >>]
    /\ remote = [c \in RemoteBox |-> Untouched]
    /\ remote_before = remote
    /\ epc = "ready"
    /\ zi = 0
    /\ written = {}
    /\ kept = {}
    /\ renders = 0
    /\ NoServer
    /\ call = 1
    /\ first_outcome = NoOutcome
    /\ given = args
    /\ pc = "start"
    /\ shape = << >>
    /\ ids = << >>
    /\ volume = << >>
    /\ ci = 0
    /\ pi = 0
    /\ ri = 0
    /\ points_offset = [pts |-> << >>, den |-> 1]
    /\ pixels = {}
    /\ writer = << >>

\* The variables of the walk through _materialize_xyz_volume the exporters
\* leave alone: they take the function's result in one step.
walkVars == <<as_channels, pc, ids, ci, pi, ri, points_offset, pixels, writer>>

\* background.py lines 18-21 and renderer.py lines 112-119: the renderer is
\* made for the export directory and the single-channel grid is built.
BeginImageStack ==
    /\ epc = "ready"
    /\ LET res == Materialize(task, checkpoints, FALSE)
           shp == VolumeShape(task, checkpoints, FALSE)
       IN  /\ files' = Mkdir(files, directory)
           /\ volume' = res.volume
           /\ shape' = shp
           /\ IF res.error = "none"
              THEN /\ epc' = "slices"
                   /\ kept' = kept \cup {FileName(directory, task, ident, z, fmt) :
                                            z \in NonEmptySlices(res.volume, shp)}
              ELSE /\ epc' = res.error
                   /\ kept' = kept
    /\ zi' = 0
    /\ written' = {}
    /\ renders' = renders + 1
    /\ UNCHANGED <<task, checkpoints, ident, directory, fmt, remote, remote_before,
                   walkVars, callVars, serverVars>>

\* Lines 122-125: a slice that sums to 0 is passed over.
SkipSlice ==
    /\ epc = "slices"
    /\ zi < shape[3]
    /\ SliceIsEmpty(volume, shape, zi)
    /\ zi' = zi + 1
    /\ UNCHANGED <<task, checkpoints, volume, shape, ident, directory, fmt, files, remote,
                   remote_before, epc, written, kept, renders, walkVars, callVars, serverVars>>

\* Lines 122-129: any other slice is saved as a uint16 image.
SaveSlice ==
    /\ epc = "slices"
    /\ zi < shape[3]
    /\ ~SliceIsEmpty(volume, shape, zi)
    /\ LET name == FileName(directory, task, ident, zi, fmt)
           img == [p \in DOMAIN Slice(volume, shape, zi) |->
                      AsUint16(Slice(volume, shape, zi)[p])]
       IN  /\ files' = ImSave(files, name, img)
           /\ written' = written \cup {name}
    /\ zi' = zi + 1
    /\ UNCHANGED <<task, checkpoints, volume, shape, ident, directory, fmt, remote,
                   remote_before, epc, kept, renders, walkVars, callVars, serverVars>>

\* Line 122: the slice loop is exhausted.
FinishImageStack ==
    /\ epc = "slices"
    /\ zi = shape[3]
    /\ epc' = "done"
    /\ UNCHANGED <<task, checkpoints, volume, shape, ident, directory, fmt, files, remote,
                   remote_before, zi, written, kept, renders, walkVars, callVars, serverVars>>

\* Lines 134-145: the grid is built, transposed and assigned to the region
\* of the dataset the task's bounds select.
WriteRemote ==
    /\ epc = "ready"
    /\ LET res == Materialize(task, checkpoints, FALSE)
           shp == VolumeShape(task, checkpoints, FALSE)
       IN  /\ volume' = res.volume
           /\ shape' = shp
           /\ remote_before' = remote
           /\ IF res.error # "none"
              THEN epc' = res.error /\ remote' = remote
              ELSE IF SetRegionRaises(task, Transpose(res.volume, shp))
              THEN epc' = "ValueError" /\ remote' = remote
              ELSE /\ epc' = "remote_done"
                   /\ remote' = SetRegion(remote, task, Transpose(res.volume, shp))
    /\ renders' = renders + 1
    /\ UNCHANGED <<task, checkpoints, ident, directory, fmt, files, zi, written, kept,
                   walkVars, callVars, serverVars>>

\* server.py lines 89-93 once more: a later save of the same task hands a
\* new checkpoint list to a render into the same places.
SaveAgain ==
    /\ epc \in {"done", "remote_done"}
    /\ renders < MaxRenders
    /\ checkpoints' \in ExportCheckpointLists
    /\ epc' = "ready"
    /\ given' = <<task, checkpoints', as_channels>>
    /\ UNCHANGED <<task, volume, shape, ident, directory, fmt, files, remote, remote_before,
                   zi, written, kept, renders, walkVars, call, first_outcome, serverVars>>

NextExport ==
    \/ BeginImageStack
    \/ SkipSlice
    \/ SaveSlice
    \/ FinishImageStack
    \/ WriteRemote
    \/ SaveAgain

SpecExport == InitExport /\ [][NextExport]_vars

\* ------------------------------------------------------------------ server

MaxRequests == 3
MaxJobs == 2

TaskIds == {"a", "b"}

\* tasks.json: the tasks and the users they are assigned to.
TaskStoreGet(task_id) ==
    IF task_id = "a" THEN [task |-> Task(0, 3, 0, 2, 0, 2, 0), assigned_to |-> "u"]
    ELSE [task |-> Task(1, 4, 0, 2, 1, 3, 1), assigned_to |-> "u"]

\* What requests name: the tasks there are and one there is not; the user
\* the tasks are assigned to and another.
RequestTaskIds == TaskIds \cup {"c"}
RequestUsers == {"u", "v"}

\* A polygon as the client sends it, every field of the model present.
WirePolygon(points, holes, pos, neg, id, z) ==
    [points |-> points, holes |-> holes, positiveRegions |-> pos,
     negativeRegions |-> neg, segmentID |-> id, z |-> z]

\* checkpoint["checkpoint"] of a request body: polygons in the new format,
\* in the legacy format, and none.
Payloads ==
    { <<WirePolygon(<< >>, << >>, <<RingLeft>>, << >>, 3, 1)>>,
      <<WirePolygon(RingWide, <<RingLow>>, << >>, << >>, 7, 1)>>,
      <<WirePolygon(<< >>, << >>, <<RingWide>>, <<RingLow>>, 3, 2),
        WirePolygon(<< >>, << >>, <<RingRight>>, << >>, 7, 1)>>,
      << >> }

\* Polygon.model_post_init: the four assignments in their order.
ModelPostInit(p) ==
    LET points == IF p.positiveRegions # << >> /\ p.points = << >>
                  THEN p.positiveRegions[1] ELSE p.points
        holes == IF p.negativeRegions # << >> /\ p.holes = << >>
                 THEN p.negativeRegions ELSE p.holes
        pos == IF points # << >> /\ p.positiveRegions = << >>
               THEN <<points>> ELSE p.positiveRegions
        neg == IF holes # << >> /\ p.negativeRegions = << >>
               THEN holes ELSE p.negativeRegions
    IN  [points |-> points, holes |-> holes, positiveRegions |-> pos,
         negativeRegions |-> neg, segmentID |-> p.segmentID, z |-> p.z]

\* Checkpoint(taskID=task_id, polygons=dicts): each dict becomes a Polygon.
Checkpoint(task_id, polygons) ==
    [taskID |-> task_id,
     polygons |-> [i \in DOMAIN polygons |-> ModelPostInit(polygons[i])]]

\* checkpoint.dict(): the fields of the checkpoint and of its polygons.
CheckpointDict(cp) ==
    [taskID |-> cp.taskID,
     polygons |-> [i \in DOMAIN cp.polygons |->
                      WirePolygon(cp.polygons[i].points, cp.polygons[i].holes,
                                  cp.polygons[i].positiveRegions,
                                  cp.polygons[i].negativeRegions,
                                  cp.polygons[i].segmentID, cp.polygons[i].z)]]

EmptyDict == [t \in {} |-> << >>]

NoFile == [exists |-> FALSE, data |-> EmptyDict]

\* JSONCheckpointStore._load_latest_from_file
LoadLatestFromFile(file) ==
    IF ~file.exists THEN EmptyDict
    ELSE [t \in DOMAIN file.data |->
             [i \in DOMAIN file.data[t] |->
                 Checkpoint(file.data[t][i].taskID, file.data[t][i].polygons)]]

\* JSONCheckpointStore._write_to_file
WriteToFile(cps) ==
    [exists |-> TRUE,
     data |-> [t \in DOMAIN cps |->
                  [i \in DOMAIN cps[t] |-> CheckpointDict(cps[t][i])]]]

\* checkpoints.get(task_id, [])
DictGet(d, key, default) == IF key \in DOMAIN d THEN d[key] ELSE default

\* checkpoints[key] = value
DictSet(d, key, value) ==
    [k \in DOMAIN d \cup {key} |-> IF k = key THEN value ELSE d[k]]

\* save_checkpoint as the lines commented out have it: the checkpoint is
\* appended to the task's list.
SaveCheckpointAppending(file, cp) ==
    LET cps == LoadLatestFromFile(file)
    IN  WriteToFile(DictSet(cps, cp.taskID, Append(DictGet(cps, cp.taskID, << >>), cp)))

\* JSONCheckpointStore.save_checkpoint
SaveCheckpoint(file, cp) ==
    WriteToFile(DictSet(LoadLatestFromFile(file), cp.taskID, <<cp>>))

\* JSONCheckpointStore.get_checkpoints_for_task
GetCheckpointsForTask(file, task_id) ==
    DictGet(LoadLatestFromFile(file), task_id, << >>)

InitServer ==
    /\ store_file = NoFile
    /\ jobs = << >>
    /\ last_saved = [t \in TaskIds |-> [count |-> 0, latest |-> << >>]]
    /\ requests = 0
    /\ NoExport
    /\ task = << >>
    /\ checkpoints = << >>
    /\ as_channels = FALSE
    /\ call = 1
    /\ first_outcome = NoOutcome
    /\ given = << >>
    /\ pc = "none"
    /\ shape = << >>
    /\ ids = << >>
    /\ volume = << >>
    /\ ci = 0
    /\ pi = 0
    /\ ri = 0
    /\ points_offset = [pts |-> << >>, den |-> 1]
    /\ pixels = {}
    /\ writer = << >>

\* The guard of the three checkpoint handlers: the task exists and is
\* assigned to the user the token stands for.
Owns(username, task_id) ==
    task_id \in TaskIds /\ TaskStoreGet(task_id).assigned_to = username

Saved(history, cp) ==
    [history EXCEPT ![cp.taskID] = [count |-> @.count + 1, latest |-> cp]]

\* save_task with the list for the render read before the checkpoint is
\* saved.
SaveTaskSnapshotFirst(task_id, username, payload) ==
    /\ requests < MaxRequests
    /\ Len(jobs) < MaxJobs
    /\ Owns(username, task_id)
    /\ LET checkpoint_obj == Checkpoint(task_id, payload)
       IN  /\ store_file' = SaveCheckpoint(store_file, checkpoint_obj)
           /\ jobs' = Append(jobs, [task_id |-> task_id,
                                    task |-> TaskStoreGet(task_id).task,
                                    checkpoints |-> GetCheckpointsForTask(store_file, task_id),
                                    submitted |-> checkpoint_obj,
                                    state |-> "added",
                                    grid |-> << >>])
           /\ last_saved' = Saved(last_saved, checkpoint_obj)
    /\ requests' = requests + 1
    /\ UNCHANGED <<renderVars, callVars, exportVars>>

\* server.py lines 80-94, from the line after the await to the return: no
\* other handler runs in between.  The checkpoint is saved, the task's list
\* is read back and handed, with the task, to a background task.
SaveTask(task_id, username, payload) ==
    /\ requests < MaxRequests
    /\ Len(jobs) < MaxJobs
    /\ Owns(username, task_id)
    /\ LET checkpoint_obj == Checkpoint(task_id, payload)
       IN  /\ store_file' = SaveCheckpoint(store_file, checkpoint_obj)
           /\ jobs' = Append(jobs, [task_id |-> task_id,
                                    task |-> TaskStoreGet(task_id).task,
                                    checkpoints |-> GetCheckpointsForTask(store_file', task_id),
                                    submitted |-> checkpoint_obj,
                                    state |-> "added",
                                    grid |-> << >>])
           /\ last_saved' = Saved(last_saved, checkpoint_obj)
    /\ requests' = requests + 1
    /\ UNCHANGED <<renderVars, callVars, exportVars>>

\* server.py lines 98-109: the checkpoint is saved and nothing is rendered.
CheckpointTask(task_id, username, payload) ==
    /\ requests < MaxRequests
    /\ Owns(username, task_id)
    /\ LET checkpoint_obj == Checkpoint(task_id, payload)
       IN  /\ store_file' = SaveCheckpoint(store_file, checkpoint_obj)
           /\ last_saved' = Saved(last_saved, checkpoint_obj)
    /\ requests' = requests + 1
    /\ UNCHANGED <<jobs, renderVars, callVars, exportVars>>

\* Lines 84-87 and 102-105: the request is answered 404.
NotFound(task_id, username) ==
    /\ requests < MaxRequests
    /\ ~Owns(username, task_id)
    /\ requests' = requests + 1
    /\ UNCHANGED <<store_file, jobs, last_saved, renderVars, callVars, exportVars>>

\* The response is out and a worker thread enters render_and_mesh; a
\* thread is taken for each background task, whatever else is running.
StartRender(j) ==
    /\ jobs[j].state = "added"
    /\ jobs' = [jobs EXCEPT ![j].state = "running"]
    /\ UNCHANGED <<store_file, last_saved, requests, renderVars, callVars, exportVars>>

\* background.py lines 18-38: render_and_mesh has gone through the list it
\* was given.
FinishRender(j) ==
    /\ jobs[j].state = "running"
    /\ jobs' = [jobs EXCEPT ![j].state = "finished",
                            ![j].grid = Materialize(jobs[j].task, jobs[j].checkpoints,
                                                    FALSE).volume]
    /\ UNCHANGED <<store_file, last_saved, requests, renderVars, callVars, exportVars>>

NextServer ==
    \/ \E t \in RequestTaskIds, u \in RequestUsers, payload \in Payloads :
           \/ SaveTask(t, u, payload)
           \/ CheckpointTask(t, u, payload)
    \/ \E t \in RequestTaskIds, u \in RequestUsers : NotFound(t, u)
    \/ \E j \in 1 .. MaxJobs : j <= Len(jobs) /\ StartRender(j)
    \/ \E j \in 1 .. MaxJobs : j <= Len(jobs) /\ FinishRender(j)

SpecServer == InitServer /\ [][NextServer]_vars

\* ------------------------------------------------------------------ claims

Returned == pc = "returned"

NonDegenerate(tsk) == XSize(tsk) > 0 /\ YSize(tsk) > 0 /\ ZSize(tsk) > 0

\* The voxels <<x, y, z>> one region of a polygon addresses.
RegionVoxels(tsk, poly, region) ==
    {<<p[2], p[1], ZLocal(tsk, poly)>> : p \in Footprint(tsk, region)}

RECURSIVE RegionWrites(_, _, _, _)
RegionWrites(tsk, poly, regions, v) ==
    IF regions = << >> THEN << >>
    ELSE (IF RegionSkipped(Head(regions)) THEN << >>
          ELSE <<[voxels |-> RegionVoxels(tsk, poly, Head(regions)), value |-> v]>>)
         \o RegionWrites(tsk, poly, Tail(regions), v)

\* The writes in the order the claim gives: polygons as supplied, and within
\* one polygon all positive regions (segmentID), then all negative regions (0).
RECURSIVE WritesInOrder(_, _)
WritesInOrder(tsk, polys) ==
    IF polys = << >> THEN << >>
    ELSE (IF PolygonSkipped(tsk, Head(polys)) THEN << >>
          ELSE RegionWrites(tsk, Head(polys), Head(polys).positiveRegions,
                            Head(polys).segmentID)
               \o RegionWrites(tsk, Head(polys), Head(polys).negativeRegions, 0))
         \o WritesInOrder(tsk, Tail(polys))

\* The value of the last write of ws that hit voxel idx, 0 when none did.
LastWrite(ws, idx) ==
    LET hits == {i \in DOMAIN ws : idx \in ws[i].voxels}
    IN  IF hits = {} THEN 0
        ELSE ws[CHOOSE i \in hits : \A j \in hits : j <= i].value

\* C1: in single-channel mode every voxel of the returned grid holds the
\* value of the last write that hit it, writes taken checkpoint by
\* checkpoint, polygon by polygon, positive regions before negative ones;
\* 0 when no write hit it.
LastWriterWins ==
    (Returned /\ ~as_channels) =>
        LET writes == WritesInOrder(task, AllPolygons(checkpoints))
        IN  \A idx \in DOMAIN volume : volume[idx] = LastWrite(writes, idx)

\* C1 witness: two hole-free polygons 3 then 7 on one slice were rendered;
\* the overlap holds 7, the rest of the first 3, the rest of the second 7.
LastWriterWinsWitness ==
    /\ Returned /\ ~as_channels
    /\ LET polys == AllPolygons(checkpoints)
       IN  /\ Len(polys) = 2
           /\ polys[1].segmentID = 3 /\ polys[2].segmentID = 7
           /\ polys[1].negativeRegions = << >> /\ polys[2].negativeRegions = << >>
           /\ polys[1].z = polys[2].z
           /\ ~PolygonSkipped(task, polys[1])
           /\ Len(polys[1].positiveRegions) = 1 /\ Len(polys[2].positiveRegions) = 1
           /\ LET first == RegionVoxels(task, polys[1], polys[1].positiveRegions[1])
                  second == RegionVoxels(task, polys[2], polys[2].positiveRegions[1])
              IN  /\ \E idx \in first \cap second : volume[idx] = 7
                  /\ \E idx \in first \ second : volume[idx] = 3
                  /\ \E idx \in second \ first : volume[idx] = 7

\* C2: writing a negative region of polygon P changes no voxel whose
\* current label was written by another polygon Q.
NegativeRegionsKeepOtherPolygons ==
    [][pc = "write_negative" =>
          \A idx \in DOMAIN volume :
              (writer[idx] # NoWriter /\ writer[idx] # <<ci, pi>>)
                  => volume'[idx] = volume[idx]]_vars

\* The fill of a region as the claims speak of it: none for a region the
\* loop passes over.
FillVoxels(tsk, poly, region) ==
    IF RegionSkipped(region) THEN {} ELSE RegionVoxels(tsk, poly, region)

UnionOfFills(tsk, poly, regions) ==
    UNION {FillVoxels(tsk, poly, regions[i]) : i \in DOMAIN regions}

\* The rearrangements of a sequence.
Rearrangements(seq) ==
    {[i \in DOMAIN seq |-> seq[f[i]]] : f \in Permutations(DOMAIN seq)}

OnePolygonInput == Len(AllPolygons(checkpoints)) = 1

\* C3: for one polygon on the z range the nonzero voxels are exactly the
\* union of its positive fills minus the union of its negative fills, all
\* holding its segmentID, and no rearrangement of the positive regions or of
\* the negative regions changes the grid.
OnePolygonComposition ==
    (Returned /\ OnePolygonInput /\ NonDegenerate(task)
        /\ ~PolygonSkipped(task, AllPolygons(checkpoints)[1])) =>
        LET poly == AllPolygons(checkpoints)[1]
            covered == UnionOfFills(task, poly, poly.positiveRegions)
                           \ UnionOfFills(task, poly, poly.negativeRegions)
        IN  /\ \A idx \in DOMAIN volume :
                   volume[idx] = IF <<idx[1], idx[2], idx[3]>> \in covered
                                 THEN poly.segmentID ELSE 0
            /\ \A pos \in Rearrangements(poly.positiveRegions) :
               \A neg \in Rearrangements(poly.negativeRegions) :
                   Materialize(task,
                       <<[polygons |-> <<Poly(poly.segmentID, poly.z, pos, neg)>>]>>,
                       as_channels) = Outcome

\* C3 witness: one polygon with two positive and two negative rings was
\* rendered, its holes removing part of its cover and leaving part.
OnePolygonCompositionWitness ==
    /\ Returned /\ OnePolygonInput /\ NonDegenerate(task)
    /\ LET poly == AllPolygons(checkpoints)[1]
           pos == UnionOfFills(task, poly, poly.positiveRegions)
           neg == UnionOfFills(task, poly, poly.negativeRegions)
       IN  /\ ~PolygonSkipped(task, poly)
           /\ Len(poly.positiveRegions) = 2 /\ Len(poly.negativeRegions) = 2
           /\ \A i \in 1 .. 2 : FillVoxels(task, poly, poly.positiveRegions[i]) # {}
           /\ FillVoxels(task, poly, poly.positiveRegions[1])
                  # FillVoxels(task, poly, poly.positiveRegions[2])
           /\ \A i \in 1 .. 2 : FillVoxels(task, poly, poly.negativeRegions[i]) # {}
           /\ pos \cap neg # {}
           /\ \E idx \in DOMAIN volume : volume[idx] = poly.segmentID

\* The number of distinct segment IDs over all polygons of all checkpoints.
AllSegmentIds ==
    {AllPolygons(checkpoints)[i].segmentID : i \in DOMAIN AllPolygons(checkpoints)}

\* C4: for a task with x_max > x_min, y_max > y_min, z_max > z_min the call
\* returns, and the grid's shape is (x_max-x_min, y_max-y_min, z_max-z_min),
\* with the label count as fourth extent in channel mode.
ShapeMatchesTaskBounds ==
    (Finished /\ task.x_max > task.x_min /\ task.y_max > task.y_min
        /\ task.z_max > task.z_min) =>
        /\ Returned
        /\ shape = IF as_channels
                   THEN <<task.x_max - task.x_min, task.y_max - task.y_min,
                          task.z_max - task.z_min, Cardinality(AllSegmentIds)>>
                   ELSE <<task.x_max - task.x_min, task.y_max - task.y_min,
                          task.z_max - task.z_min>>
        /\ DOMAIN volume = Indices(shape)

\* C4 witness: a channel grid over a box of unequal extents at resolution
\* level 1 was returned.
ShapeMatchesTaskBoundsWitness ==
    /\ Returned /\ as_channels
    /\ task.resolution = 1
    /\ task.x_max - task.x_min = 3 /\ task.y_max - task.y_min = 2
    /\ shape = <<3, 2, 2, 2>>
    /\ \E idx \in DOMAIN volume : volume[idx] # 0

\* C5: in channel mode there is one channel per distinct segmentID of any
\* polygon, channel k belongs to the k-th smallest of them, and every voxel
\* of channel k is 0 or that segmentID.
ChannelPerSegmentId ==
    (Returned /\ as_channels) =>
        /\ shape[4] = Cardinality(AllSegmentIds)
        /\ \A k \in 0 .. shape[4] - 1 :
               LET id == CHOOSE v \in AllSegmentIds :
                             Cardinality({u \in AllSegmentIds : u < v}) = k
               IN  /\ ids[k + 1] = id
                   /\ \A idx \in DOMAIN volume :
                          idx[4] = k => volume[idx] \in {0, id}

\* C5 witness: a two-channel grid was returned with both labels present.
ChannelPerSegmentIdWitness ==
    /\ Returned /\ as_channels
    /\ AllSegmentIds = {3, 7}
    /\ \E idx \in DOMAIN volume : idx[4] = 0 /\ volume[idx] = 3
    /\ \E idx \in DOMAIN volume : idx[4] = 1 /\ volume[idx] = 7

\* C6: whenever x_max <= x_min, y_max <= y_min or z_max <= z_min the call is
\* rejected with an error and returns no grid.
DegenerateBoundsRejected ==
    (task.x_max <= task.x_min \/ task.y_max <= task.y_min
        \/ task.z_max <= task.z_min) => ~Returned

\* A sequence without its i-th element.
Without(seq, i) == SubSeq(seq, 1, i - 1) \o SubSeq(seq, i + 1, Len(seq))

\* The checkpoint list with polygon p of checkpoint c replaced, or removed.
WithPolygon(cps, c, p, poly) ==
    [cps EXCEPT ![c] = [polygons |-> [cps[c].polygons EXCEPT ![p] = poly]]]

WithoutPolygon(cps, c, p) ==
    [cps EXCEPT ![c] = [polygons |-> Without(cps[c].polygons, p)]]

PolygonPlaces(cps) ==
    {cp \in (1 .. Len(cps)) \X (1 .. MaxPolygons + 1) : cp[2] <= Len(cps[cp[1]].polygons)}

\* C7: a ring of fewer than 3 vertices contributes no write: the outcome
\* is that of the same input with that ring removed, and in single-channel
\* mode a polygon whose only region is such a positive ring can be removed
\* as a whole.
ShortRingsContributeNothing ==
    Finished =>
        \A cp \in PolygonPlaces(checkpoints) :
            LET poly == checkpoints[cp[1]].polygons[cp[2]]
            IN  /\ \A r \in DOMAIN poly.positiveRegions :
                       Len(poly.positiveRegions[r]) < 3 =>
                           Outcome = Materialize(task,
                               WithPolygon(checkpoints, cp[1], cp[2],
                                   [poly EXCEPT !.positiveRegions =
                                       Without(poly.positiveRegions, r)]),
                               as_channels)
                /\ \A r \in DOMAIN poly.negativeRegions :
                       Len(poly.negativeRegions[r]) < 3 =>
                           Outcome = Materialize(task,
                               WithPolygon(checkpoints, cp[1], cp[2],
                                   [poly EXCEPT !.negativeRegions =
                                       Without(poly.negativeRegions, r)]),
                               as_channels)
                /\ (/\ ~as_channels
                    /\ Len(poly.positiveRegions) = 1
                    /\ Len(poly.positiveRegions[1]) = 2
                    /\ poly.negativeRegions = << >>) =>
                       Outcome = Materialize(task,
                           WithoutPolygon(checkpoints, cp[1], cp[2]), as_channels)

\* C7 witness: a polygon with a 2-vertex positive ring, a 2-vertex negative
\* ring and a proper ring was rendered on the z range, its proper ring and
\* a later polygon both leaving their labels.
ShortRingsContributeNothingWitness ==
    /\ Returned /\ NonDegenerate(task)
    /\ LET polys == AllPolygons(checkpoints)
       IN  /\ Len(polys) = 2
           /\ ~PolygonSkipped(task, polys[1]) /\ ~PolygonSkipped(task, polys[2])
           /\ \E r \in DOMAIN polys[1].positiveRegions :
                  Len(polys[1].positiveRegions[r]) = 2
           /\ \E r \in DOMAIN polys[1].negativeRegions :
                  Len(polys[1].negativeRegions[r]) = 2
           /\ polys[1].segmentID # polys[2].segmentID
           /\ \E idx \in DOMAIN volume : volume[idx] = polys[1].segmentID
           /\ \E idx \in DOMAIN volume : volume[idx] = polys[2].segmentID

\* C8: a polygon whose z - z_min is outside [0, z_size) writes nothing: in
\* single-channel mode the outcome is that of the same input with that
\* polygon removed.
OffRangePolygonsSkipped ==
    (Finished /\ ~as_channels) =>
        \A cp \in PolygonPlaces(checkpoints) :
            LET poly == checkpoints[cp[1]].polygons[cp[2]]
            IN  (\/ poly.z - task.z_min < 0
                 \/ poly.z - task.z_min >= task.z_max - task.z_min) =>
                    Outcome = Materialize(task,
                        WithoutPolygon(checkpoints, cp[1], cp[2]), FALSE)

\* C8 witness: a polygon below the z range with a ring to fill came first,
\* and a later polygon on the z range left its label in the returned grid.
OffRangePolygonsSkippedWitness ==
    /\ Returned /\ ~as_channels /\ NonDegenerate(task)
    /\ LET polys == AllPolygons(checkpoints)
       IN  /\ Len(polys) = 2
           /\ polys[1].z - task.z_min < 0
           /\ \E r \in DOMAIN polys[1].positiveRegions :
                  Len(polys[1].positiveRegions[r]) >= 3
           /\ ~PolygonSkipped(task, polys[2])
           /\ \E idx \in DOMAIN volume : volume[idx] = polys[2].segmentID
           /\ \A idx \in DOMAIN volume : volume[idx] \in {0, polys[2].segmentID}

\* The region the region loop is at.
CurrentRegion ==
    IF pc \in {"positive", "write_positive"}
    THEN CurrentPolygon.positiveRegions[ri]
    ELSE CurrentPolygon.negativeRegions[ri]

AtWrite == pc \in {"write_positive", "write_negative"}

\* min(max(v, 0), size - 1)
Clamped(v, size) ==
    IF v < 0 THEN 0 ELSE IF v > size - 1 THEN size - 1 ELSE v

\* C9: with non-degenerate bounds every pixel (row, col) of a fill is
\* written at (min(max(col,0), x_size-1), min(max(row,0), y_size-1)) of the
\* polygon's slice: the index is inside the grid, no pixel is dropped and no
\* error is raised.
FillIsClampedIntoGrid ==
    [][(AtWrite /\ NonDegenerate(task)) =>
          LET fill == RegionFill(points_offset)
              z == CurrentPolygon.z - task.z_min
              k == IF as_channels THEN IndexOf(ids, CurrentPolygon.segmentID) ELSE 0
              v == IF pc = "write_positive" THEN CurrentPolygon.segmentID ELSE 0
          IN  /\ pc' \notin {"IndexError", "ValueError"}
              /\ \A p \in fill :
                     LET x == Clamped(p[2], task.x_max - task.x_min)
                         y == Clamped(p[1], task.y_max - task.y_min)
                     IN  /\ 0 <= x /\ x < shape[1]
                         /\ 0 <= y /\ y < shape[2]
                         /\ VoxelIndex(x, y, z, k, as_channels) \in DOMAIN volume
                         /\ volume'[VoxelIndex(x, y, z, k, as_channels)] = v
              /\ \A idx \in DOMAIN volume :
                     volume'[idx] # volume[idx] =>
                         \E p \in fill :
                             idx = VoxelIndex(Clamped(p[2], task.x_max - task.x_min),
                                              Clamped(p[1], task.y_max - task.y_min),
                                              z, k, as_channels)]_vars

\* C9 witness: a ring whose fill lies wholly outside the task window was
\* written, and its label sits on the window's border.
FillIsClampedIntoGridWitness ==
    /\ Returned /\ NonDegenerate(task) /\ OnePolygonInput
    /\ LET poly == AllPolygons(checkpoints)[1]
       IN  /\ ~PolygonSkipped(task, poly)
           /\ Len(poly.positiveRegions) = 1 /\ poly.negativeRegions = << >>
           /\ Len(poly.positiveRegions[1]) >= 3
           /\ RegionFill(points_offset) # {}
           /\ \A p \in RegionFill(points_offset) :
                  p[2] > shape[1] - 1 \/ p[1] > shape[2] - 1
           /\ \E idx \in DOMAIN volume :
                  /\ volume[idx] = poly.segmentID
                  /\ idx[1] = shape[1] - 1 /\ idx[2] = shape[2] - 1

\* The pixels (row, col) >= 0 whose point, taken back to annotation space
\* by x = 2^r * (col + x_min), y = 2^r * (row + y_min), lies in or on the
\* ring: x goes with the column, y with the row.  No such point has
\* x > max x or y > max y, which bounds the search (2^r >= 1).
AnnotationSpaceFill(tsk, ring) ==
    LET f == 2 ^ tsk.resolution
        xs == [vals |-> [i \in DOMAIN ring |-> ring[i][1]], den |-> 1]
        ys == [vals |-> [i \in DOMAIN ring |-> ring[i][2]], den |-> 1]
    IN  {p \in (0 .. Max(0, ArrMax(ys)) - tsk.y_min) \X (0 .. Max(0, ArrMax(xs)) - tsk.x_min) :
            point_in_polygon(xs, ys, f * (p[2] + tsk.x_min), f * (p[1] + tsk.y_min))}

\* C10: every vertex (x, y) of a positive or negative ring is mapped to
\* (x / 2^r - x_min, y / 2^r - y_min) before the fill, x being the column
\* (first grid axis) and y the row; r = 1, x_min = y_min = 50 maps
\* (200, 200) to (50, 50).
VerticesScaledThenOffset ==
    /\ AtWrite =>
        /\ points_offset.den > 0
        /\ Len(points_offset.pts) = Len(CurrentRegion)
        /\ \A i \in DOMAIN CurrentRegion :
               /\ (points_offset.pts[i][1] + task.x_min * points_offset.den)
                      * 2 ^ task.resolution = CurrentRegion[i][1] * points_offset.den
               /\ (points_offset.pts[i][2] + task.y_min * points_offset.den)
                      * 2 ^ task.resolution = CurrentRegion[i][2] * points_offset.den
        /\ pixels = {<<Clamped(p[1], task.y_max - task.y_min),
                       Clamped(p[2], task.x_max - task.x_min)>> :
                        p \in AnnotationSpaceFill(task, CurrentRegion)}
    /\ LET at == PointsOffset(Task(50, 60, 50, 60, 0, 1, 1),
                              << <<200, 200>>, <<204, 200>>, <<200, 204>> >>)
       IN  /\ at.pts[1][1] = 50 * at.den
           /\ at.pts[1][2] = 50 * at.den

\* C10 witness: a negative ring was transformed at resolution level 1 under
\* a task whose x_min and y_min differ, and its fill is not empty.
VerticesScaledThenOffsetWitness ==
    /\ pc = "write_negative"
    /\ task.resolution = 1
    /\ task.x_min # task.y_min
    /\ pixels # {}
    /\ \E p \in pixels : p[1] # p[2]

\* C11: a second call with the same task, the same checkpoint list and the
\* same as_channels flag ends as the first one did, with the same grid or the
\* same error, and no step of either call changes the task, the checkpoints
\* or their rings.
Deterministic ==
    /\ args = given
    /\ (call = 2 /\ Finished) => Outcome = first_outcome

\* C11 witness: the second call has returned a grid with a labelled voxel,
\* built in channel mode from two checkpoints.
DeterministicWitness ==
    /\ call = 2
    /\ Returned
    /\ as_channels
    /\ Len(checkpoints) = 2
    /\ \E idx \in DOMAIN volume : volume[idx] # 0

\* The checkpoints with only the polygons of segmentID s, order kept.
RestrictedTo(cps, s) ==
    [c \in DOMAIN cps |->
        [polygons |-> SelectSeq(cps[c].polygons, LAMBDA poly : poly.segmentID = s)]]

\* C17: in channel mode channel k, which belongs to segmentID ids[k], is
\* the single-channel grid of the same task over the checkpoints restricted
\* to the polygons of that segmentID; the polygons of other segmentIDs,
\* negative regions included, have no effect on it.
ChannelIsPerLabelRender ==
    (Returned /\ as_channels) =>
        \A k \in 0 .. shape[4] - 1 :
            LET single == Materialize(task, RestrictedTo(checkpoints, ids[k + 1]), FALSE)
            IN  /\ single.error = "none"
                /\ \A idx \in DOMAIN single.volume :
                       volume[<<idx[1], idx[2], idx[3], k>>] = single.volume[idx]

\* C17 witness: a polygon of segmentID 7 cleared, in its own channel, a
\* negative region lying over a voxel that channel 0 shows labelled 3.
ChannelIsPerLabelRenderWitness ==
    /\ Returned /\ as_channels
    /\ ids = <<3, 7>>
    /\ LET polys == AllPolygons(checkpoints)
       IN  /\ Len(polys) = 2
           /\ polys[1].segmentID = 3 /\ polys[2].segmentID = 7
           /\ Len(polys[1].positiveRegions) >= 1 /\ Len(polys[2].negativeRegions) >= 1
           /\ ~PolygonSkipped(task, polys[1])
           /\ \E v \in RegionVoxels(task, polys[1], polys[1].positiveRegions[1])
                        \cap RegionVoxels(task, polys[2], polys[2].negativeRegions[1]) :
                  /\ volume[<<v[1], v[2], v[3], 0>>] = 3
                  /\ volume[<<v[1], v[2], v[3], 1>>] = 0

\* The name the exporter gives slice z of the task at hand.
SliceName(z) == FileName(directory, task, ident, z, fmt)

\* C13: when the image-stack export of a grid is through, slice z of
\* 0 .. z_size-1 had a file written if and only if its voxels do not sum to
\* 0, that file is the one named by the directory, the task's collection,
\* experiment, channel, resolution and id, z and the format, no two slices
\* share a file, and nothing else was written.
OneFilePerNonEmptySlice ==
    (epc = "done") =>
        /\ shape[3] = ZSize(task)
        /\ \A z \in 0 .. shape[3] - 1 :
               (SliceName(z) \in written) <=> (ArraySum(Slice(volume, shape, z)) # 0)
        /\ written \subseteq {SliceName(z) : z \in 0 .. shape[3] - 1}
        /\ written \subseteq DOMAIN files
        /\ \A z1, z2 \in 0 .. shape[3] - 1 : SliceName(z1) = SliceName(z2) => z1 = z2

\* C13 witness: an export is through in which one slice was skipped and
\* another, whose voxel at the origin is 0, was written.
OneFilePerNonEmptySliceWitness ==
    /\ epc = "done"
    /\ \E z1, z2 \in 0 .. shape[3] - 1 :
           /\ SliceName(z1) \notin written
           /\ SliceName(z2) \in written
           /\ volume[<<0, 0, z2>>] = 0

\* C14: when the remote write is through it did not raise, every cell
\* (z_min+k, y_min+j, x_min+i) of the dataset holds grid[i, j, k] for i, j, k
\* within the grid's extents, and every other cell holds what it held before.
RemoteRegionReceivesTransposedGrid ==
    /\ epc \notin {"ValueError", "IndexError"}
    /\ (epc = "remote_done") =>
           /\ \A i \in 0 .. XSize(task) - 1, j \in 0 .. YSize(task) - 1,
                    k \in 0 .. ZSize(task) - 1 :
                  remote[<<task.z_min + k, task.y_min + j, task.x_min + i>>]
                      = volume[<<i, j, k>>]
           /\ \A c \in RemoteBox :
                  (\/ c[1] < task.z_min \/ c[1] >= task.z_max
                   \/ c[2] < task.y_min \/ c[2] >= task.y_max
                   \/ c[3] < task.x_min \/ c[3] >= task.x_max)
                      => remote[c] = remote_before[c]

\* C14 witness: a grid that differs from its own mirror image in x and y
\* was written at an offset; inside the region there are cells now 0 and
\* cells now labelled, outside it the dataset is as before.
RemoteRegionReceivesTransposedGridWitness ==
    /\ epc = "remote_done"
    /\ task.x_min > 0
    /\ XSize(task) # YSize(task)
    /\ \E c \in RemoteRegion(task) : remote[c] = 0
    /\ \E c \in RemoteRegion(task) : remote[c] \notin {0, Untouched}
    /\ \E c \in RemoteBox \ RemoteRegion(task) : remote[c] = Untouched

\* C18: the export directory only gains files: each render leaves every
\* file that was there, and when a render is through the directory holds
\* the slice files of the non-empty slices of all renders so far.
SliceFilesAccumulate ==
    /\ kept \subseteq DOMAIN files \cup {SliceName(z) : z \in 0 .. ZSize(task) - 1}
    /\ DOMAIN files \subseteq kept
    /\ (epc = "done") => DOMAIN files = kept

\* C18 witness: after a later render the directory still holds the file of
\* a slice that is empty in the grid just exported.
SliceFilesAccumulateWitness ==
    /\ epc = "done"
    /\ renders = 2
    /\ \E z \in 0 .. shape[3] - 1 :
           /\ z \notin NonEmptySlices(volume, shape)
           /\ SliceName(z) \in DOMAIN files
    /\ \E z \in NonEmptySlices(volume, shape) : SliceName(z) \in DOMAIN files

\* C19: every pixel of a slice image written in this render is the voxel's
\* value modulo 2^16; it equals the voxel's value exactly when that value is
\* below 65536; and a slice whose labels are all multiples of 65536 is
\* written, as an image of zeros.
PixelsAreLabelsModulo16Bits ==
    (epc \in {"slices", "done"}) =>
        \A z \in 0 .. zi - 1 :
            LET slice == Slice(volume, shape, z)
                labels == {slice[p] : p \in DOMAIN slice} \ {0}
            IN  /\ labels # {} => SliceName(z) \in written
                /\ SliceName(z) \in written =>
                       /\ DOMAIN files[SliceName(z)] = DOMAIN slice
                       /\ \A p \in DOMAIN slice :
                              /\ files[SliceName(z)][p] = slice[p] % 65536
                              /\ (files[SliceName(z)][p] = slice[p]) <=> (slice[p] < 65536)
                /\ (labels # {} /\ \A v \in labels : v % 65536 = 0) =>
                       \A p \in DOMAIN slice : files[SliceName(z)][p] = 0

\* C19 witness: a slice labelled only 65536 was written as an image of
\* zeros, and a slice with a label above 65536 as an image showing 3.
PixelsAreLabelsModulo16BitsWitness ==
    /\ epc = "done"
    /\ \E z \in 0 .. shape[3] - 1 :
           /\ \E p \in DOMAIN Slice(volume, shape, z) : Slice(volume, shape, z)[p] = 65536
           /\ SliceName(z) \in written
           /\ \A p \in DOMAIN Slice(volume, shape, z) : files[SliceName(z)][p] = 0

\* C15: after any saves, get_checkpoints_for_task(t) is the list of one
\* element, the checkpoint saved last for t, and the empty list when none
\* was saved for t; so a save for one task changes no other task's list.
StoreKeepsLatestCheckpoint ==
    \A t \in RequestTaskIds :
        GetCheckpointsForTask(store_file, t) =
            IF t \in TaskIds /\ last_saved[t].count > 0
            THEN <<last_saved[t].latest>>
            ELSE << >>

\* C15 witness: task a was saved twice, the last time with a polygon sent in
\* the legacy format, task b once in between or after, with other polygons.
StoreKeepsLatestCheckpointWitness ==
    /\ last_saved["a"].count = 2
    /\ last_saved["b"].count = 1
    /\ last_saved["a"].latest.polygons # last_saved["b"].latest.polygons
    /\ \E i \in DOMAIN last_saved["a"].latest.polygons :
           last_saved["a"].latest.polygons[i].holes # << >>

\* C12: no two render_and_mesh runs of the same task, which write into the
\* same ./exports/{task_id}/, are in progress at once.
OneRenderPerTaskAtATime ==
    \A i, j \in DOMAIN jobs :
        (i # j /\ jobs[i].state = "running" /\ jobs[j].state = "running")
            => jobs[i].task_id # jobs[j].task_id

\* C16: the list a save request hands to its render holds the checkpoint
\* of that very request, and what the render builds is the grid of that
\* list, whatever was saved for the task since.
RenderGetsItsOwnCheckpoint ==
    \A j \in DOMAIN jobs :
        /\ \E i \in DOMAIN jobs[j].checkpoints : jobs[j].checkpoints[i] = jobs[j].submitted
        /\ jobs[j].state = "finished" =>
               jobs[j].grid = Materialize(jobs[j].task, <<jobs[j].submitted>>, FALSE).volume

\* C16 witness: a render is through whose task has since had another
\* checkpoint saved, one that gives a different grid.
RenderGetsItsOwnCheckpointWitness ==
    \E j \in DOMAIN jobs :
        /\ jobs[j].state = "finished"
        /\ \E v \in DOMAIN jobs[j].grid : jobs[j].grid[v] # 0
        /\ GetCheckpointsForTask(store_file, jobs[j].task_id) # <<jobs[j].submitted>>
        /\ jobs[j].grid # Materialize(jobs[j].task,
                                      GetCheckpointsForTask(store_file, jobs[j].task_id),
                                      FALSE).volume

====
